---- MODULE Spec2Model ----
(***************************************************************************)
(* YouTube_Channel_Tracker: the collection job (src/fetch_stats.py) that   *)
(* appends one sample per run to a per-channel CSV store, and the          *)
(* Streamlit dashboard (src/interactive_graph.py) that loads the store,    *)
(* filters it by a display period and reports day/week deltas.             *)
(*                                                                         *)
(* Encoding.  An instant is an integer number of clock ticks since the     *)
(* epoch, TicksPerSecond ticks to the second (datetime carries a sub-      *)
(* second part, the '%Y-%m-%d %H:%M:%S' text does not).  The text of a     *)
(* timestamp is the whole number of seconds it denotes.  The text of an    *)
(* int is the int.  Python's None is the empty tuple and a present value v *)
(* is <<v>>.  A rate (a float rounded to 2 places) is an integer number of *)
(* hundredths of a percent.  A dict of four lists is a record of four      *)
(* sequences.  The four period labels of the selectbox (line 248) are      *)
(* written "all", "last7", "last30", "last90", in the order of the list.   *)
(***************************************************************************)
EXTENDS Integers, Sequences, FiniteSets, TLC

VARIABLES
    file,     \* the channel's CSV file: [exists, lines]
    saved,    \* history: the rows handed to csv.DictWriter.writerow, in call order
    runs,     \* number of runs of the collection job so far
    clock,    \* the wall clock (UTC), in ticks
    tz,       \* offset of the dashboard's local time from UTC, in ticks
    cache,    \* st.cache_data's memo of load_csv_data for the file's path
    page,     \* what the last run of the dashboard script put on the page
    arg,      \* the arguments of a direct call of a query function
    out       \* the value that call returned

vars == <<file, saved, runs, clock, tz, cache, page, arg, out>>

----------------------------------------------------------------------------
(* Bounds and input sets *)

MaxRuns == 2            \* runs of the collection job
MaxLen == 9             \* samples in a series handed to calculate_changes
MaxFilterLen == 3       \* samples in a series handed to filter_data_by_period
TicksPerSecond == 2     \* clock resolution kept by the model

Second == TicksPerSecond
Day == 24 * 60 * 60 * Second

\* Days (since the start) at which the clock is observed; their differences
\* include each period length exactly (7, 30, 90), ages between two period
\* lengths (23, 67) and one past the longest (97).
DayMarks == {0, 7, 30, 97}
Instants == {d * Day + f : d \in DayMarks, f \in 0..(TicksPerSecond - 1)}

\* Local-time offsets of the machine showing the dashboard (UTC, UTC+9).
TzOffsets == {0, 9 * 60 * 60 * Second}

\* Statistics the API may return for the channel.
ApiStats ==
    { [subscriber_count |-> 0, view_count |-> 0, video_count |-> 0],
      [subscriber_count |-> 3, view_count |-> 7, video_count |-> 1] }

Periods == {"all", "last7", "last30", "last90"}

----------------------------------------------------------------------------
(* Values *)

None == <<>>
Some(v) == <<v>>

Keys == {"subscriber_count", "view_count", "video_count"}

EmptyData ==
    [timestamp |-> <<>>, subscriber_count |-> <<>>,
     view_count |-> <<>>, video_count |-> <<>>]

\* data[key][-k], Python's index from the end
FromEnd(list, k) == list[Len(list) + 1 - k]

\* datetime.strftime('%Y-%m-%d %H:%M:%S'): the sub-second part is dropped
strftime(instant) == instant \div Second

\* datetime.strptime(text, '%Y-%m-%d %H:%M:%S'): the instant at that second
strptime(text) == text * Second

\* round(x, 2) of x = num / den * 100 (den > 0), in hundredths of a percent,
\* ties to even; the float quotient is taken as the exact one
RoundRate(num, den) ==
    LET n == num * 10000
        f == n \div den
        r == n - f * den
    IN  IF 2 * r < den THEN f
        ELSE IF 2 * r > den THEN f + 1
        ELSE IF f % 2 = 0 THEN f ELSE f + 1

----------------------------------------------------------------------------
(* src/fetch_stats.py *)

HeaderLine == [kind |-> "header", timestamp |-> 0, subscriber_count |-> 0,
               view_count |-> 0, video_count |-> 0]

\* the row built at lines 130-137
MakeRow(data, now) ==
    [kind |-> "row",
     timestamp |-> strftime(now),
     subscriber_count |-> data.subscriber_count,
     view_count |-> data.view_count,
     video_count |-> data.video_count]

\* variant: the header written by every call
save_to_csv_reheaded(f, data, now) ==
    LET opened == IF f.exists THEN f.lines ELSE <<>>
    IN  [exists |-> TRUE,
         lines |-> Append(Append(opened, HeaderLine), MakeRow(data, now))]

\* save_to_csv: the file after the call (open in append mode, the header only
\* when the file did not exist, then the row)
save_to_csv(f, data, now) ==
    LET file_exists == f.exists
        opened == IF file_exists THEN f.lines ELSE <<>>
        headed == IF ~file_exists THEN Append(opened, HeaderLine) ELSE opened
    IN  [exists |-> TRUE, lines |-> Append(headed, MakeRow(data, now))]

----------------------------------------------------------------------------
(* src/interactive_graph.py *)

\* load_csv_data's body: csv.DictReader takes the first line as the field
\* names and yields every later line; a field that does not parse raises.
load_csv_data(lines) ==
    LET n == IF Len(lines) = 0 THEN 0 ELSE Len(lines) - 1
        rows == [i \in 1..n |-> lines[i + 1]]
    IN  IF \E i \in 1..n : rows[i].kind # "row"
        THEN [raised |-> TRUE, data |-> EmptyData]
        ELSE [raised |-> FALSE,
              data |-> [timestamp |-> [i \in 1..n |-> strptime(rows[i].timestamp)],
                        subscriber_count |-> [i \in 1..n |-> rows[i].subscriber_count],
                        view_count |-> [i \in 1..n |-> rows[i].view_count],
                        video_count |-> [i \in 1..n |-> rows[i].video_count]]]

\* @st.cache_data: the memo answers when it holds an entry for the path,
\* otherwise the body runs on the file as it is now
cached_load(memo, f) ==
    IF memo # <<>> THEN [raised |-> FALSE, data |-> memo[1]]
    ELSE load_csv_data(f.lines)

\* the memo after the call: a returned value is stored, an exception is not
cache_after(memo, f) ==
    IF memo # <<>> THEN memo
    ELSE IF load_csv_data(f.lines).raised THEN memo
    ELSE <<load_csv_data(f.lines).data>>

period_days(period) ==
    CASE period = "last7" -> 7
      [] period = "last30" -> 30
      [] period = "last90" -> 90
      [] OTHER -> 0

\* variant: a sample exactly at the cutoff left out
keeps_after(ts, cutoff) == ts > cutoff

\* whether the loop of lines 91-96 keeps the sample with timestamp ts
keeps(ts, cutoff) == ts >= cutoff

\* variant: the series taken as time-ordered, everything from the first
\* kept sample on returned as one contiguous suffix
FilterLoop_suffix(data, cutoff, i, filtered) ==
    LET n == Len(data.timestamp)
        hits == {k \in i..n : data.timestamp[k] >= cutoff}
        first == IF hits = {} THEN n + 1
                 ELSE CHOOSE k \in hits : \A h \in hits : k <= h
    IN  [timestamp |-> filtered.timestamp \o SubSeq(data.timestamp, first, n),
         subscriber_count |->
             filtered.subscriber_count \o SubSeq(data.subscriber_count, first, n),
         view_count |-> filtered.view_count \o SubSeq(data.view_count, first, n),
         video_count |-> filtered.video_count \o SubSeq(data.video_count, first, n)]

\* the loop of lines 91-96, from position i on
RECURSIVE FilterLoop(_, _, _, _)
FilterLoop(data, cutoff, i, filtered) ==
    IF i > Len(data.timestamp) THEN filtered
    ELSE FilterLoop(data, cutoff, i + 1,
            IF keeps(data.timestamp[i], cutoff)
            THEN [timestamp |-> Append(filtered.timestamp, data.timestamp[i]),
                  subscriber_count |-> Append(filtered.subscriber_count, data.subscriber_count[i]),
                  view_count |-> Append(filtered.view_count, data.view_count[i]),
                  video_count |-> Append(filtered.video_count, data.video_count[i])]
            ELSE filtered)

\* filter_data_by_period, with datetime.now() passed as now
filter_data_by_period(data, period, now) ==
    IF period = "all" \/ data.timestamp = <<>> THEN data
    ELSE LET days == period_days(period)
         IN  IF days = 0 THEN data
             ELSE FilterLoop(data, now - days * Day, 1, EmptyData)

\* variant: the weekly pair only from 9 samples on
weekly_len_late == 8 + 1

\* the length at which the weekly pair is computed (line 130)
weekly_len == 8

\* variant: the sample 6 positions back taken as the week-old one
week_ago_of_seventh(list) == FromEnd(list, 7)

\* 'previous' of line 121
previous_of(list) == FromEnd(list, 2)

\* 'week_ago' of line 131
week_ago_of(list) == FromEnd(list, 8)

\* variant: a zero base divided as if it were 1
rate_of_unguarded(change, base) ==
    IF base # 0 THEN RoundRate(change, base) ELSE RoundRate(change, 1)

\* (change / base * 100) if base != 0 else 0.0, rounded to 2 places
rate_of(change, base) == IF base # 0 THEN RoundRate(change, base) ELSE 0

\* one key's entry of calculate_changes' result (the loop body, lines 120-135)
changes_of(list) ==
    LET current == FromEnd(list, 1)
        previous == previous_of(list)
        daily_change == current - previous
        weekly == Len(list) >= weekly_len
        week_ago == week_ago_of(list)
        weekly_change == current - week_ago
    IN  [daily_change |-> Some(daily_change),
         daily_rate |-> Some(rate_of(daily_change, previous)),
         weekly_change |-> IF weekly THEN Some(weekly_change) ELSE None,
         weekly_rate |-> IF weekly THEN Some(rate_of(weekly_change, week_ago)) ELSE None]

NoChanges ==
    [daily_change |-> None, daily_rate |-> None,
     weekly_change |-> None, weekly_rate |-> None]

calculate_changes(data) ==
    IF Len(data.timestamp) < 2 THEN [key \in Keys |-> NoChanges]
    ELSE [key \in Keys |-> changes_of(data[key])]

\* variant: the empty-period case reported with the empty-series warning
period_warning_same == "empty"

\* the two warnings of lines 258 and 265
empty_warning == "empty"
period_warning == "empty_period"

\* variant: the deltas computed on the period-filtered series
changes_input_filtered(raw_data, data) == data

\* the series handed to calculate_changes at line 271
changes_input(raw_data, data) == raw_data

\* variant: the first sample of the period shown as the current value
current_value_first(data, key) == data[key][1]

\* the value of st.metric at lines 278, 286, 294
current_value(data, key) == FromEnd(data[key], 1)

\* what the script shows for the one channel once its series is loaded
\* (the loop body, lines 257-301)
show_channel(raw_data, period, now) ==
    IF raw_data.timestamp = <<>>
    THEN [status |-> empty_warning, raw |-> Some(raw_data),
          chart |-> None, value |-> None, changes |-> None]
    ELSE LET data == filter_data_by_period(raw_data, period, now)
         IN  IF data.timestamp = <<>>
             THEN [status |-> period_warning, raw |-> Some(raw_data),
                   chart |-> None, value |-> None, changes |-> None]
             ELSE [status |-> "shown", raw |-> Some(raw_data),
                   chart |-> Some(data),
                   value |-> Some([key \in Keys |-> current_value(data, key)]),
                   changes |-> Some(calculate_changes(changes_input(raw_data, data)))]

BlankPage ==
    [status |-> "blank", raw |-> None,
     chart |-> None, value |-> None, changes |-> None]

\* main of interactive_graph.py: the page it builds
dashboard_page(f, memo, period, now) ==
    IF ~f.exists
    THEN [BlankPage EXCEPT !.status = "no_csv"]
    ELSE LET loaded == cached_load(memo, f)
         IN  IF loaded.raised
             THEN [BlankPage EXCEPT !.status = "ValueError"]
             ELSE show_channel(loaded.data, period, now)

----------------------------------------------------------------------------
(* Actions *)

NoFile == [exists |-> FALSE, lines |-> <<>>]
NoArg == [data |-> EmptyData, period |-> "all", now |-> 0]
NoOut == [filtered |-> None, changes |-> None]

\* time passes
Tick ==
    /\ \E t \in Instants : t > clock /\ clock' = t
    /\ UNCHANGED <<file, saved, runs, tz, cache, page, arg, out>>

\* one run of the collection job (main of fetch_stats.py) for the channel:
\* the id lookup or the statistics request may fail, and then nothing is saved
FetchJob ==
    /\ runs < MaxRuns
    /\ runs' = runs + 1
    /\ \/ UNCHANGED <<file, saved>>
       \/ \E stats \in ApiStats :
            /\ file' = save_to_csv(file, stats, clock)
            /\ saved' = Append(saved, [data |-> stats, now |-> clock])
    /\ UNCHANGED <<clock, tz, cache, page, arg, out>>

\* one run of the dashboard script with the period chosen in the sidebar
DashboardMain ==
    /\ \E period \in Periods :
         page' = dashboard_page(file, cache, period, clock + tz)
    /\ cache' = IF file.exists THEN cache_after(cache, file) ELSE cache
    /\ UNCHANGED <<file, saved, runs, clock, tz, arg, out>>

\* a direct call of filter_data_by_period
CallFilter ==
    /\ out.filtered = None
    /\ out' = [out EXCEPT !.filtered =
                  Some(filter_data_by_period(arg.data, arg.period, arg.now))]
    /\ UNCHANGED <<file, saved, runs, clock, tz, cache, page, arg>>

\* a direct call of calculate_changes
CallChanges ==
    /\ out.changes = None
    /\ out' = [out EXCEPT !.changes = Some(calculate_changes(arg.data))]
    /\ UNCHANGED <<file, saved, runs, clock, tz, cache, page, arg>>

----------------------------------------------------------------------------
(* Spec: the collection job and the dashboard over one channel's store.     *)
(* The data directory starts with no file for the channel, or with a file   *)
(* that has its header and no sample yet (the case line 257 of the          *)
(* dashboard handles).  The dashboard's process and its memo live on.       *)

Init ==
    /\ file \in {NoFile, [exists |-> TRUE, lines |-> <<HeaderLine>>]}
    /\ saved = <<>>
    /\ runs = 0
    /\ clock = 0
    /\ tz \in TzOffsets
    /\ cache = <<>>
    /\ page = BlankPage
    /\ arg = NoArg
    /\ out = NoOut

Next == FetchJob \/ Tick \/ DashboardMain

Spec == Init /\ [][Next]_vars

----------------------------------------------------------------------------
(* SpecChanges: calculate_changes called on series of 0..MaxLen samples.    *)
(* Each metric's list is drawn on its own: a value, then from some          *)
(* position on another value (a rise, a fall or no change anywhere in the   *)
(* list).                                                                   *)

StepLists(n, values) ==
    {[i \in 1..n |-> IF i <= j THEN a ELSE b] :
        j \in 0..n, a \in values, b \in values}

ChangeInputs ==
    UNION {[timestamp : {[i \in 1..n |-> i * Day]},
            subscriber_count : StepLists(n, {0, 3}),
            view_count : StepLists(n, {3, 7}),
            video_count : StepLists(n, {0, 1})] : n \in 0..MaxLen}

InitChanges ==
    /\ file = NoFile
    /\ saved = <<>>
    /\ runs = 0
    /\ clock = 0
    /\ tz = 0
    /\ cache = <<>>
    /\ page = BlankPage
    /\ arg \in [data : ChangeInputs, period : {"all"}, now : {0}]
    /\ out = NoOut

SpecChanges == InitChanges /\ [][CallChanges]_vars

----------------------------------------------------------------------------
(* SpecFilter: filter_data_by_period and calculate_changes called on any    *)
(* series of 0..MaxFilterLen samples, in time order or not, with any of the *)
(* selectbox's labels or a label the function does not know.                *)

FilterStamps == {d * Day : d \in {7, 67, 90, 97}}
FilterNows == {97 * Day, 97 * Day + 1}
FilterPeriods == Periods \cup {"other"}

SeriesOf(stamps, stats) ==
    [timestamp |-> stamps,
     subscriber_count |-> [i \in DOMAIN stats |-> stats[i].subscriber_count],
     view_count |-> [i \in DOMAIN stats |-> stats[i].view_count],
     video_count |-> [i \in DOMAIN stats |-> stats[i].video_count]]

FilterInputs ==
    UNION {{SeriesOf(stamps, stats) :
               stamps \in [1..n -> FilterStamps], stats \in [1..n -> ApiStats]} :
           n \in 0..MaxFilterLen}

InitFilter ==
    /\ file = NoFile
    /\ saved = <<>>
    /\ runs = 0
    /\ clock = 0
    /\ tz = 0
    /\ cache = <<>>
    /\ page = BlankPage
    /\ arg \in [data : FilterInputs, period : FilterPeriods, now : FilterNows]
    /\ out = NoOut

NextFilter == CallFilter \/ CallChanges

SpecFilter == InitFilter /\ [][NextFilter]_vars

----------------------------------------------------------------------------
(* SpecDash: the dashboard over a store the collection job has filled       *)
(* before: 0..MaxLen samples taken once a day from day 0 on.                *)

StoredStats(n) ==
    {[i \in 1..n |-> [subscriber_count |-> IF i <= j THEN a ELSE b,
                      view_count |-> 10 * i + (IF i <= j THEN 0 ELSE 5),
                      video_count |-> IF i <= j THEN 1 ELSE 2]] :
        j \in 0..n, a \in {0, 3}, b \in {0, 3}}

StoredFile(stats) ==
    [exists |-> TRUE,
     lines |-> <<HeaderLine>> \o
               [i \in DOMAIN stats |-> MakeRow(stats[i], (i - 1) * Day)]]

StoredFiles == UNION {{StoredFile(stats) : stats \in StoredStats(n)} : n \in 0..MaxLen}

InitDash ==
    /\ file \in StoredFiles
    /\ saved = <<>>
    /\ runs = 0
    /\ clock \in {t \in Instants : t >= (Len(file.lines) - 2) * Day}
    /\ tz \in TzOffsets
    /\ cache = <<>>
    /\ page = BlankPage
    /\ arg = NoArg
    /\ out = NoOut

NextDash == Tick \/ DashboardMain

SpecDash == InitDash /\ [][NextDash]_vars

----------------------------------------------------------------------------
(* Claims about calculate_changes, under SpecChanges *)

Returned == out.changes # None
Result == out.changes[1]
InLen == Len(arg.data.timestamp)
Present(v) == Len(v) = 1

C2_ChangeIsDifference ==
    Returned =>
        \A key \in Keys :
            LET S == arg.data[key]
            IN  /\ InLen > 1 =>
                     Result[key].daily_change = <<S[InLen] - S[InLen - 1]>>
                /\ InLen > 7 =>
                     Result[key].weekly_change = <<S[InLen] - S[InLen - 7]>>

\* a weekly loss of subscribers that is not the change over 6 or 8 positions
C2_Witness ==
    /\ Returned
    /\ InLen > 8
    /\ Result.subscriber_count.weekly_change = <<0 - 3>>
    /\ arg.data.subscriber_count[InLen - 6] = 0
    /\ arg.data.subscriber_count[InLen - 8] = 3
    /\ Result.view_count.daily_change = <<4>>

\* C3: when the series has more than k samples and the metric's value k
\* positions before the last is 0, the rate for that metric and offset is 0.
C3_ZeroBaseline ==
    Returned =>
        \A key \in Keys :
            LET S == arg.data[key]
            IN  /\ (InLen > 1 /\ S[InLen - 1] = 0) =>
                     Result[key].daily_rate = <<0>>
                /\ (InLen > 7 /\ S[InLen - 7] = 0) =>
                     Result[key].weekly_rate = <<0>>

\* a rise from a zero baseline, daily and weekly, reported with rate 0
C3_Witness ==
    /\ Returned
    /\ InLen > 7
    /\ arg.data.subscriber_count[InLen - 7] = 0
    /\ arg.data.subscriber_count[InLen - 1] = 0
    /\ Result.subscriber_count.weekly_change = <<3>>
    /\ Result.subscriber_count.daily_change = <<3>>
    /\ Result.subscriber_count.weekly_rate = <<0>>
    /\ Result.subscriber_count.daily_rate = <<0>>

----------------------------------------------------------------------------
(* Claims about filter_data_by_period, under SpecFilter *)

Fields == {"timestamp"} \cup Keys
Filtered == out.filtered[1]
Windowed == arg.period \in {"last7", "last30", "last90"}

\* the cutoff of the claim: now minus the label's number of days
WindowDays ==
    IF arg.period = "last7" THEN 7 ELSE IF arg.period = "last30" THEN 30 ELSE 90
Cutoff == arg.now - WindowDays * Day

\* positions of the input whose timestamp is at or after the cutoff
InWindow == {i \in 1..InLen : arg.data.timestamp[i] >= Cutoff}
Rank(i) == Cardinality({j \in InWindow : j <= i})

\* the result is the input's samples at the positions InWindow, in that order
IsSelection(result) ==
    /\ \A f \in Fields : Len(result[f]) = Cardinality(InWindow)
    /\ \A i \in InWindow : \A f \in Fields : result[f][Rank(i)] = arg.data[f][i]

\* C4: for a window of n > 0 days and cutoff c = now - n days, the result
\* holds exactly the samples with timestamp >= c (one exactly at c included,
\* every sample left out is older than c), in their order in the input,
\* duplicates kept, each with the three values it had at its position.
C4_ExactSelection ==
    (out.filtered # None /\ Windowed) => IsSelection(Filtered)

\* last 7 days: an older sample dropped, two samples exactly at the cutoff
\* (same timestamp, different values) both kept in order
C4_Witness ==
    /\ out.filtered # None
    /\ arg.period = "last7"
    /\ arg.now = 97 * Day
    /\ arg.data.timestamp = <<67 * Day, 90 * Day, 90 * Day>>
    /\ arg.data.subscriber_count = <<3, 0, 3>>
    /\ Filtered.timestamp = <<90 * Day, 90 * Day>>
    /\ Filtered.subscriber_count = <<0, 3>>
    /\ Filtered.view_count = <<0, 7>>

\* the input has a sample older than one before it
Unordered ==
    \E i \in 1..InLen : \E j \in (i + 1)..InLen :
        arg.data.timestamp[j] < arg.data.timestamp[i]

----------------------------------------------------------------------------
(* Claims about the dashboard, under SpecDash *)

PageRaw == page.raw[1]
PageLen == Len(PageRaw.timestamp)

\* the page the script would build now, from the series on the page, with
\* period p selected
Reported(p) == show_channel(PageRaw, p, clock + tz)

\* C5 as stated: whatever period is selected, the dashboard reports the same
\* six change values for the entity (here for a series long enough to have
\* a daily change).
C5_SameForEveryPeriod ==
    (page.status = "shown" /\ PageLen > 1) =>
        \A p \in Periods : Reported(p).changes = page.changes

\* C5 as the code has it: under every period selection that displays the
\* entity (its filtered series is not empty) the six change values are those
\* of calculate_changes on the full series; a selection whose window holds
\* no sample reports no deltas at all.
C5_SameWheneverShown ==
    page.status = "shown" =>
        /\ page.changes = <<calculate_changes(PageRaw)>>
        /\ \A p \in Periods :
              Reported(p).status = "shown" => Reported(p).changes = page.changes

\* a page whose chart was narrowed by the period while a weekly delta is
\* reported, and another selection now shows a different chart
C5_Witness ==
    /\ page.status = "shown"
    /\ Len(page.chart[1].timestamp) < PageLen
    /\ Present(page.changes[1].subscriber_count.weekly_change)
    /\ page.changes[1].subscriber_count.weekly_change # <<0>>
    /\ \E p \in Periods : /\ Reported(p).status = "shown"
                           /\ Reported(p).chart # page.chart

\* C10: when the entity is displayed, the current value shown for each
\* metric (the last element of the filtered series) is the last element of
\* the full series, the one calculate_changes takes as 'current': the
\* daily change shown is that value minus the full series' value before it.
C10_ValueIsLatestSample ==
    page.status = "shown" =>
        \A key \in Keys :
            /\ page.value[1][key] = PageRaw[key][PageLen]
            /\ PageLen > 1 =>
                  page.changes[1][key].daily_change =
                      <<page.value[1][key] - PageRaw[key][PageLen - 1]>>

\* a displayed entity whose filtered series is a proper part of the full
\* series and whose first filtered value differs from its last
C10_Witness ==
    /\ page.status = "shown"
    /\ Len(page.chart[1].timestamp) < PageLen
    /\ Len(page.chart[1].timestamp) > 1
    /\ page.chart[1].subscriber_count[1] # page.value[1].subscriber_count

----------------------------------------------------------------------------
(* Claims about the store and the dashboard over it, under Spec *)

\* C6 as stated: every load by the dashboard returns every sample appended
\* so far, in append order.
C6_LoadIsCurrent ==
    [][DashboardMain =>
         (page'.raw # None => page'.raw = <<load_csv_data(file.lines).data>>)]_vars

\* C7: the file holds one header record followed by one sample record per
\* save_to_csv call in call order, each the row of its call; so each call
\* added one record at the end, left the earlier ones as they were, and only
\* the call that created the file wrote a header.
C7_AppendOnlyStore ==
    /\ ~file.exists => (saved = <<>> /\ file.lines = <<>>)
    /\ file.exists =>
          /\ Len(file.lines) = 1 + Len(saved)
          /\ file.lines[1].kind = "header"
          /\ \A i \in 1..Len(saved) :
                file.lines[i + 1] =
                    [kind |-> "row",
                     timestamp |-> saved[i].now \div TicksPerSecond,
                     subscriber_count |-> saved[i].data.subscriber_count,
                     view_count |-> saved[i].data.view_count,
                     video_count |-> saved[i].data.video_count]

\* two calls at different times with different statistics, both rows in
\* the file after its header
C7_Witness ==
    /\ Len(saved) = 2
    /\ saved[1].now < saved[2].now
    /\ saved[1].data # saved[2].data
    /\ Len(file.lines) = 3

\* the page the script would build now with period p selected
WouldShow(p) == dashboard_page(file, cache, p, clock + tz)

\* positions of series raw inside the window of period p at this instant
NowInWindow(raw, p) ==
    LET days == IF p = "last7" THEN 7 ELSE IF p = "last30" THEN 30 ELSE 90
    IN  {i \in 1..Len(raw.timestamp) :
            raw.timestamp[i] >= clock + tz - days * Day}

NothingShown(pg) == pg.chart = None /\ pg.value = None /\ pg.changes = None

\* C8: an empty loaded series is reported as "empty" (no data), a non-empty
\* one with no sample in the selected window as "empty_period" (no data in
\* the selected period); the two never coincide, in both no chart, value or
\* delta is shown, and no exception is raised.
C8_EmptyKindsDistinct ==
    /\ page.status # "ValueError"
    /\ page.status = "empty" => (PageLen = 0 /\ NothingShown(page))
    /\ page.status = "empty_period" => (PageLen > 0 /\ NothingShown(page))
    /\ file.exists =>
          \A p \in Periods :
              LET pg == WouldShow(p)
                  raw == pg.raw[1]
                  none == p # "all" /\ NowInWindow(raw, p) = {}
              IN  /\ pg.status # "ValueError"
                  /\ pg.status = "empty" <=> Len(raw.timestamp) = 0
                  /\ pg.status = "empty_period" <=>
                        (Len(raw.timestamp) > 0 /\ none)
                  /\ pg.status = "shown" <=>
                        (Len(raw.timestamp) > 0 /\ ~none)

\* a page reporting an empty period for a series that holds samples, while
\* the all-time selection would display the entity
C8_Witness ==
    /\ page.status = "empty_period"
    /\ PageLen > 0
    /\ NothingShown(page)
    /\ WouldShow("all").status = "shown"

====
